---- MODULE Spec2Model ----
(***************************************************************************)
(* The per-chain execution dispatcher of linera-execution                  *)
(* (src/linera-execution/src/execution.rs): the three entry points         *)
(* execute_operation, execute_effect and query_application of              *)
(* ExecutionStateView, and the private runner run_user_action.             *)
(*                                                                         *)
(* The dispatcher's collaborators (system sub-application, application     *)
(* registry, loader, ExecutionRuntime, SessionManager, user application    *)
(* code) live outside execution.rs.  They are modelled from their          *)
(* contracts: the outcome of a collaborator call is an input chosen with   *)
(* \E, and the steps application code takes through the runtime between    *)
(* its invocation and its return are separate actions.                     *)
(***************************************************************************)
EXTENDS Integers, Sequences, FiniteSets, TLC

VARIABLES
    system,           \* ExecutionStateView::system, abstracted to the number of system operations/effects applied
    users,            \* ExecutionStateView::users: UserApplicationId -> register
    known,            \* system.registry: the application ids that have a description
    pc,               \* "idle" | "app" (application code is running) | "done"
    call,             \* the arguments of the top-level call in progress
    action,           \* UserAction kind being run, or "Query", or "none"
    target,           \* application_id of the user action / user query
    op_results,       \* `results` of execute_operation (line 191) while Initialize runs
    application_ids,  \* the application-id stack handed to the runtime
    session_manager,  \* the SessionManager handed to the runtime
    results,          \* the results accumulator handed to the runtime
    frames,           \* callee ids of the nested calls that have not returned yet
    ret,              \* what the entry point returned
    invoked_system,   \* the system sub-application was invoked by this call
    app_status,       \* "none" | "running" | "ok" | "err": the target's entry point
    app_result,       \* the RawExecutionResult.effects returned by the target
    raised,           \* the error a `?`, `ensure!` or `Err` arm of the dispatcher met, or "none"
    deps_resolved,    \* the registry could resolve the target's closure when the target returned
    pre,              \* the chain state when the call started
    ncalls,           \* top-level calls made so far
    nnested,          \* nested calls made in this call tree
    lookup,           \* "none" | "unresolved" | "unloadable" | "ok": what registry and loader answered for the target
    closed,           \* ids of the sessions closed in the table held by session_manager
    stale_open        \* the table just replaced by this call's own still held a session; cleared by the first step of application code

vars == <<system, users, known, pc, call, action, target, op_results,
          application_ids, session_manager, results, frames, ret,
          invoked_system, app_status, app_result, raised, deps_resolved, pre,
          ncalls, nnested, lookup, closed, stale_open>>

(***************************************************************************)
(* Bounds                                                                  *)
(***************************************************************************)
MaxTopCalls == 2
MaxNested == 2
MaxSessions == 1
MaxEffects == 2

(***************************************************************************)
(* Values                                                                  *)
(***************************************************************************)
Apps == {1, 2, 3}
Kinds == {"System", "User"}
Chains == {"chainC", "chainX"}
Dest == {"D1", "D2"}
RegValues == {0, 1}

\* self.context().extra().chain_id()
StateChainId == "chainC"

SeqsUpTo(S, n) == UNION {[1..k -> S] : k \in 0..n}

UserEffect(d) == [dest |-> d, type |-> "User", applications |-> <<>>]
SystemEffect(d) == [dest |-> d, type |-> "SystemOther", applications |-> <<>>]
RegisterApplications(d, apps) ==
    [dest |-> d, type |-> "RegisterApplications", applications |-> apps]

\* The RawExecutionResults a user application can return.
EffectSeqs == SeqsUpTo({UserEffect(d) : d \in Dest}, MaxEffects)
\* The RawExecutionResults the system sub-application can return.
SystemEffectSeqs == {<<>>, <<SystemEffect("D1")>>}
\* The RawExecutionResults a nested callee can return.
NestedEffectSeqs == {<<>>, <<UserEffect("D2")>>}

SystemResult(effects) == [kind |-> "System", app |-> 0, effects |-> effects]
UserResult(id, effects) == [kind |-> "User", app |-> id, effects |-> effects]

Ok(rs) == [status |-> "ok", error |-> "none", results |-> rs, response |-> "none"]
OkResponse(r) == [status |-> "ok", error |-> "none", results |-> <<>>, response |-> r]
Err(e) == [status |-> "err", error |-> e, results |-> <<>>, response |-> "none"]
Panic == [status |-> "panic", error |-> "assert_eq", results |-> <<>>, response |-> "none"]
NoReturn == [status |-> "none", error |-> "none", results |-> <<>>, response |-> "none"]

NoCall == [entry |-> "none", kind |-> "System", id |-> 0, payload |-> "System",
           chain |-> StateChainId]

Front(s) == SubSeq(s, 1, Len(s) - 1)
Last(s) == s[Len(s)]

(***************************************************************************)
(* Application registry                                                    *)
(***************************************************************************)
\* required application ids of each description
Dependencies(a) == IF a = 3 THEN <<1>> ELSE IF a = 1 THEN <<2>> ELSE <<>>

\* registry.describe_application(id) succeeds
DescribeApplication(id, registry, storage_ok) == storage_ok /\ id \in registry

RECURSIVE DepsOfAll(_)
\* the descriptions required by a list of ids, dependencies first, no duplicates
Dedup(s) == LET RECURSIVE D(_, _)
                D(i, acc) == IF i > Len(s) THEN acc
                             ELSE IF \E j \in 1..Len(acc) : acc[j] = s[i]
                                  THEN D(i + 1, acc)
                                  ELSE D(i + 1, Append(acc, s[i]))
            IN D(1, <<>>)
DepsOfAll(ids) ==
    IF ids = <<>> THEN <<>>
    ELSE Dedup(DepsOfAll(Dependencies(ids[1])) \o <<ids[1]>> \o DepsOfAll(Tail(ids)))

\* the closure of every application, computed once
ClosureTable == [a \in Apps |-> DepsOfAll(<<a>>)]

\* registry.describe_application_with_dependencies(id): id and its transitive
\* dependencies, in a deterministic order (dependencies first)
DescribeWithDependencies(id) == ClosureTable[id]

\* ... which fails when a description is missing or the storage read fails
DescribeWithDependenciesOk(id, registry, storage_ok) ==
    /\ storage_ok
    /\ \A i \in 1..Len(DescribeWithDependencies(id)) :
          DescribeWithDependencies(id)[i] \in registry

(***************************************************************************)
(* The dispatcher's pure steps                                             *)
(***************************************************************************)
\* faulty variant: the chain-id assertion is missing
ChainIdCheckSkipped(ctx_chain) == TRUE

\* assert_eq!(context.chain_id, self.context().extra().chain_id())
ChainIdCheck(ctx_chain) == ctx_chain = StateChainId

\* faulty variant: the arm is chosen by the application kind alone
RouteByApplicationKind(kind, payload) ==
    IF kind = "System" THEN "system" ELSE "user"

\* match (application_id, operation | effect | query)
Route(kind, payload) ==
    IF kind = "System" /\ payload = "System" THEN "system"
    ELSE IF kind = "User" /\ payload = "User" THEN "user"
    ELSE "invalid"

\* the error of the `_ =>` arm of each entry point
InvalidError(entry) ==
    IF entry = "operation" THEN "InvalidOperation"
    ELSE IF entry = "effect" THEN "InvalidEffect"
    ELSE "InvalidQuery"

\* faulty variant: the runtime is handed the table the previous call left
SessionManagerStale == session_manager

\* SessionManager::default()
SessionManagerDefault == [counter |-> 0, states |-> {}]

\* faulty variant: every registration is sent to the first effect's destination
RegistrationEffectsAtFirstDestination(effects, applications) ==
    [i \in 1..Len(effects) |-> RegisterApplications(effects[1].dest, applications)]

\* for effect in &result.effects { system_result.effects.push(..) }
RegistrationEffects(effects, applications) ==
    [i \in 1..Len(effects) |-> RegisterApplications(effects[i].dest, applications)]

\* faulty variant: the System result is pushed even when it has no effect
PushResultsAlwaysSystem(acc, application_id, result, applications) ==
    Append(Append(acc, SystemResult(RegistrationEffects(result, applications))),
           UserResult(application_id, result))

\* faulty variant: the User result is pushed before the System result
PushResultsUserFirst(acc, application_id, result, applications) ==
    LET with_user == Append(acc, UserResult(application_id, result))
    IN IF result # <<>>
       THEN Append(with_user,
                   SystemResult([i \in 1..Len(result) |->
                                   RegisterApplications(result[i].dest, applications)]))
       ELSE with_user

\* the pushes onto `results` after the application returned
PushResults(acc, application_id, result, applications) ==
    LET system_result == RegistrationEffects(result, applications)
        with_system == IF system_result # <<>>
                       THEN Append(acc, SystemResult(system_result))
                       ELSE acc
    IN Append(with_system, UserResult(application_id, result))

\* faulty variant: the final ensure! looks at the session counter, not at the
\* table
FinishUserActionCountingSessions(application_id, stack, sessions, acc, result, deps_ok) ==
    IF stack # <<application_id>> THEN Panic
    ELSE IF ~deps_ok THEN Err("ApplicationResolutionError")
    ELSE IF sessions.counter # 0 THEN Err("SessionWasNotClosed")
    ELSE Ok(PushResults(acc, application_id, result,
                        DescribeWithDependencies(application_id)))

\* faulty variant: the session table is checked before the stack and the
\* closure
FinishUserActionSessionCheckFirst(application_id, stack, sessions, acc, result, deps_ok) ==
    IF sessions.states # {} THEN Err("SessionWasNotClosed")
    ELSE IF stack # <<application_id>> THEN Panic
    ELSE IF ~deps_ok THEN Err("ApplicationResolutionError")
    ELSE Ok(PushResults(acc, application_id, result,
                        DescribeWithDependencies(application_id)))

\* faulty variant: a failure of describe_application_with_dependencies is
\* not propagated
FinishUserActionIgnoringResolution(application_id, stack, sessions, acc, result, deps_ok) ==
    IF stack # <<application_id>> THEN Panic
    ELSE IF sessions.states # {} THEN Err("SessionWasNotClosed")
    ELSE Ok(PushResults(acc, application_id, result,
                        DescribeWithDependencies(application_id)))

\* faulty variant: the final ensure! on the session table is missing
FinishUserActionNoSessionCheck(application_id, stack, sessions, acc, result, deps_ok) ==
    IF stack # <<application_id>> THEN Panic
    ELSE IF ~deps_ok THEN Err("ApplicationResolutionError")
    ELSE Ok(PushResults(acc, application_id, result,
                        DescribeWithDependencies(application_id)))

\* faulty variant: the assert_eq! on the application-id stack is missing
FinishUserActionNoStackAssert(application_id, stack, sessions, acc, result, deps_ok) ==
    IF ~deps_ok THEN Err("ApplicationResolutionError")
    ELSE IF sessions.states # {} THEN Err("SessionWasNotClosed")
    ELSE Ok(PushResults(acc, application_id, result,
                        DescribeWithDependencies(application_id)))

\* run_user_action from the return of the application's entry point on
FinishUserAction(application_id, stack, sessions, acc, result, deps_ok) ==
    IF stack # <<application_id>> THEN Panic
    ELSE IF ~deps_ok THEN Err("ApplicationResolutionError")
    ELSE IF sessions.states # {} THEN Err("SessionWasNotClosed")
    ELSE Ok(PushResults(acc, application_id, result,
                        DescribeWithDependencies(application_id)))

\* faulty variant: the Initialize results are put before the System result
ExtendReversed(sys_results, inner) ==
    IF inner.status = "ok" THEN Ok(inner.results \o sys_results) ELSE inner

\* faulty variant: a failed Initialize is swallowed and the System result returned
ExtendKeepingSystemResult(sys_results, inner) ==
    IF inner.status = "ok" THEN Ok(sys_results \o inner.results) ELSE Ok(sys_results)

\* execute_operation: results.extend(self.run_user_action(..).await?); Ok(results)
ExtendWithInitialize(sys_results, inner) ==
    IF inner.status = "ok" THEN Ok(sys_results \o inner.results) ELSE inner

\* faulty variant: the query returns what the runtime accumulated
FinishQueryReturningAccumulator(application_id, stack, sessions) ==
    IF stack # <<application_id>> THEN Panic
    ELSE [status |-> "ok", error |-> "none", results |-> results,
          response |-> "User"]

\* query_application from the return of the application's query on
FinishQuery(application_id, stack, sessions) ==
    IF stack # <<application_id>> THEN Panic ELSE OkResponse("User")

(***************************************************************************)
(* Initial state                                                           *)
(***************************************************************************)
Snapshot == [system |-> system, users |-> users, known |-> known]

Init ==
    /\ system = 0
    /\ users = [a \in Apps |-> 0]
    /\ known = {1, 2}
    /\ pc = "idle"
    /\ call = NoCall
    /\ action = "none"
    /\ target = 0
    /\ op_results = <<>>
    /\ application_ids = <<>>
    /\ session_manager = [counter |-> 0, states |-> {}]
    /\ results = <<>>
    /\ frames = <<>>
    /\ ret = NoReturn
    /\ invoked_system = FALSE
    /\ app_status = "none"
    /\ app_result = <<>>
    /\ raised = "none"
    /\ deps_resolved = TRUE
    /\ pre = [system |-> 0, users |-> [a \in Apps |-> 0], known |-> {1, 2}]
    /\ ncalls = 0
    /\ nnested = 0
    /\ lookup = "none"
    /\ closed = {}
    /\ stale_open = FALSE

(***************************************************************************)
(* Entry points                                                            *)
(***************************************************************************)
\* faulty variant: the entry point is entered while a call tree is active
BeginWhileActive(entry, kind, id, payload, ctx_chain) ==
    /\ ncalls < MaxTopCalls
    /\ ncalls' = ncalls + 1
    /\ call' = [entry |-> entry, kind |-> kind, id |-> id, payload |-> payload,
                chain |-> ctx_chain]
    /\ pre' = Snapshot

Begin(entry, kind, id, payload, ctx_chain) ==
    /\ pc = "idle"
    /\ ncalls < MaxTopCalls
    /\ ncalls' = ncalls + 1
    /\ call' = [entry |-> entry, kind |-> kind, id |-> id, payload |-> payload,
                chain |-> ctx_chain]
    /\ pre' = Snapshot

\* the call returns r before anything was invoked
Reject(r) ==
    /\ ret' = r
    /\ raised' = IF r.status = "err" THEN r.error ELSE "none"
    /\ pc' = "done"
    /\ UNCHANGED <<lookup, closed, stale_open, system, users, known, action,
                   target, op_results, application_ids, session_manager,
                   results, frames, invoked_system, app_status, app_result,
                   deps_resolved, nnested>>

\* faulty variant: a failure of the loader is not propagated
LoadOutcomeIgnoringLoader(described, loaded) ==
    IF ~described THEN "ApplicationResolutionError" ELSE "none"

\* the two `?` before the runtime is built: describe_application, then
\* get_user_application; "none" when both succeeded
LoadOutcome(described, loaded) ==
    IF ~described THEN "ApplicationResolutionError"
    ELSE IF ~loaded THEN "LoadError"
    ELSE "none"

\* describe_application, get_user_application, then the runtime is built and
\* the application's entry point is invoked
StartRuntime(id, act, prefix, registry) ==
    \E storage_ok \in BOOLEAN, load_ok \in BOOLEAN :
       LET described == DescribeApplication(id, registry, storage_ok)
           outcome == LoadOutcome(described, load_ok)
       IN
       /\ action' = act
       /\ target' = id
       /\ lookup' = IF ~described THEN "unresolved"
                    ELSE IF ~load_ok THEN "unloadable"
                    ELSE "ok"
       /\ UNCHANGED <<users, frames, app_result, deps_resolved, nnested>>
       /\ IF outcome # "none"
          THEN /\ ret' = Err(outcome)
               /\ raised' = outcome
               /\ pc' = "done"
               /\ UNCHANGED <<op_results, application_ids, session_manager,
                              results, app_status, closed, stale_open>>
          ELSE /\ session_manager' = SessionManagerDefault
               /\ stale_open' = (session_manager.states # {})
               /\ closed' = {}
               /\ results' = <<>>
               /\ application_ids' = <<id>>
               /\ op_results' = prefix
               /\ app_status' = "running"
               /\ pc' = "app"
               /\ UNCHANGED <<ret, raised>>

\* run_user_action up to the call to user code
RunUserAction(id, act, prefix, registry) == StartRuntime(id, act, prefix, registry)

\* the (User, Query::User) arm of query_application up to the call to user code
RunUserQuery(id) ==
    /\ StartRuntime(id, "Query", <<>>, known)
    /\ UNCHANGED <<system, known, invoked_system>>

\* self.system.execute_operation(context, op), then the Initialize cascade
SystemOperation ==
    \E sys_ok \in BOOLEAN, effs \in SystemEffectSeqs, new \in {0} \cup (Apps \ known) :
       /\ invoked_system' = TRUE
       /\ IF ~sys_ok
          THEN /\ ret' = Err("SystemError")
               /\ raised' = "SystemError"
               /\ pc' = "done"
               /\ UNCHANGED <<lookup, closed, stale_open, system, users,
                              known, action, target, op_results,
                              application_ids, session_manager, results,
                              frames, app_status, app_result, deps_resolved,
                              nnested>>
          ELSE /\ system' = system + 1
               /\ IF new = 0
                  THEN /\ ret' = Ok(<<SystemResult(effs)>>)
                       /\ pc' = "done"
                       /\ UNCHANGED <<lookup, closed, stale_open, users,
                                      known, action, target, op_results,
                                      application_ids, session_manager,
                                      results, frames, app_status, app_result,
                                      raised, deps_resolved, nnested>>
                  ELSE /\ known' = known \cup {new}
                       /\ RunUserAction(new, "Initialize", <<SystemResult(effs)>>,
                                        known \cup {new})

\* faulty variant: the effect arm runs the operation arm with its cascade
SystemEffectCallWithCascade == SystemOperation

\* self.system.execute_effect(context, effect)
SystemEffectCall ==
    \E sys_ok \in BOOLEAN, effs \in SystemEffectSeqs :
       /\ invoked_system' = TRUE
       /\ pc' = "done"
       /\ ret' = IF sys_ok THEN Ok(<<SystemResult(effs)>>) ELSE Err("SystemError")
       /\ raised' = IF sys_ok THEN "none" ELSE "SystemError"
       /\ system' = IF sys_ok THEN system + 1 ELSE system
       /\ UNCHANGED <<lookup, closed, stale_open, users, known, action,
                      target, op_results, application_ids, session_manager,
                      results, frames, app_status, app_result, deps_resolved,
                      nnested>>

\* self.system.query_application(context, query)
SystemQuery ==
    \E sys_ok \in BOOLEAN :
       /\ invoked_system' = TRUE
       /\ pc' = "done"
       /\ ret' = IF sys_ok THEN OkResponse("System") ELSE Err("SystemError")
       /\ raised' = IF sys_ok THEN "none" ELSE "SystemError"
       /\ UNCHANGED <<lookup, closed, stale_open, system, users, known,
                      action, target, op_results, application_ids,
                      session_manager, results, frames, app_status,
                      app_result, deps_resolved, nnested>>

ExecuteOperation ==
    \E kind \in Kinds, payload \in Kinds, ctx_chain \in Chains :
       \E id \in IF kind = "User" THEN Apps ELSE {0} :
          /\ Begin("operation", kind, id, payload, ctx_chain)
          /\ IF ~ChainIdCheck(ctx_chain) THEN Reject(Panic)
             ELSE IF Route(kind, payload) = "system" THEN SystemOperation
             ELSE IF Route(kind, payload) = "user"
             THEN /\ RunUserAction(id, "Operation", <<>>, known)
                  /\ UNCHANGED <<system, known, invoked_system>>
             ELSE Reject(Err(InvalidError("operation")))

ExecuteEffect ==
    \E kind \in Kinds, payload \in Kinds, ctx_chain \in Chains :
       \E id \in IF kind = "User" THEN Apps ELSE {0} :
          /\ Begin("effect", kind, id, payload, ctx_chain)
          /\ IF ~ChainIdCheck(ctx_chain) THEN Reject(Panic)
             ELSE IF Route(kind, payload) = "system" THEN SystemEffectCall
             ELSE IF Route(kind, payload) = "user"
             THEN /\ RunUserAction(id, "Effect", <<>>, known)
                  /\ UNCHANGED <<system, known, invoked_system>>
             ELSE Reject(Err(InvalidError("effect")))

QueryApplication ==
    \E kind \in Kinds, payload \in Kinds, ctx_chain \in Chains :
       \E id \in IF kind = "User" THEN Apps ELSE {0} :
          /\ Begin("query", kind, id, payload, ctx_chain)
          /\ IF ~ChainIdCheck(ctx_chain) THEN Reject(Panic)
             ELSE IF Route(kind, payload) = "system" THEN SystemQuery
             ELSE IF Route(kind, payload) = "user" THEN RunUserQuery(id)
             ELSE Reject(Err(InvalidError("query")))

(***************************************************************************)
(* Application code running against the ExecutionRuntime                   *)
(***************************************************************************)
\* the application the runtime takes to be executing
CurrentApplication == Last(application_ids)

\* faulty variant: a new session takes the smallest id not in the table
OpenSessionReusingId ==
    /\ pc = "app"
    /\ Cardinality(session_manager.states) < MaxSessions
    /\ session_manager.counter <= MaxSessions
    /\ LET id == CHOOSE i \in 1..(MaxSessions + 1) :
                    /\ i \notin session_manager.states
                    /\ \A j \in 1..(i - 1) : j \in session_manager.states
       IN session_manager' =
             [counter |-> session_manager.counter + 1,
              states |-> session_manager.states \cup {id}]
    /\ stale_open' = FALSE
    /\ UNCHANGED <<lookup, closed, system, users, known, pc, call, action,
                   target, op_results, application_ids, results, frames, ret,
                   invoked_system, app_status, app_result, raised,
                   deps_resolved, pre, ncalls, nnested>>

\* a session is opened: a fresh id keyed into the table
OpenSession ==
    /\ pc = "app"
    /\ session_manager.counter < MaxSessions
    /\ session_manager' =
          [counter |-> session_manager.counter + 1,
           states |-> session_manager.states \cup {session_manager.counter + 1}]
    /\ stale_open' = FALSE
    /\ UNCHANGED <<lookup, closed, system, users, known, pc, call, action,
                   target, op_results, application_ids, results, frames, ret,
                   invoked_system, app_status, app_result, raised,
                   deps_resolved, pre, ncalls, nnested>>

\* a session is closed: its entry is removed
CloseSession ==
    /\ pc = "app"
    /\ \E s \in session_manager.states :
          /\ session_manager' = [session_manager EXCEPT !.states = @ \ {s}]
          /\ closed' = closed \cup {s}
    /\ stale_open' = FALSE
    /\ UNCHANGED <<lookup, system, users, known, pc, call, action, target,
                   op_results, application_ids, results, frames, ret,
                   invoked_system, app_status, app_result, raised,
                   deps_resolved, pre, ncalls, nnested>>

\* the target application writes its register through the runtime
WriteRegister ==
    /\ pc = "app"
    /\ action # "Query"
    /\ frames = <<>>
    /\ \E v \in RegValues \ {users[CurrentApplication]} :
          users' = [users EXCEPT ![CurrentApplication] = v]
    /\ stale_open' = FALSE
    /\ UNCHANGED <<lookup, closed, system, known, pc, call, action, target,
                   op_results, application_ids, session_manager, results,
                   frames, ret, invoked_system, app_status, app_result,
                   raised, deps_resolved, pre, ncalls, nnested>>

\* the executing application calls one of the applications it requires:
\* the runtime pushes the callee id
CallApplication ==
    /\ pc = "app"
    /\ nnested < MaxNested
    /\ \E i \in 1..Len(Dependencies(CurrentApplication)) :
          LET callee == Dependencies(CurrentApplication)[i] IN
          /\ callee \in known
          /\ application_ids' = Append(application_ids, callee)
          /\ frames' = Append(frames, callee)
    /\ nnested' = nnested + 1
    /\ stale_open' = FALSE
    /\ UNCHANGED <<lookup, closed, system, users, known, pc, call, action,
                   target, op_results, session_manager, results, ret,
                   invoked_system, app_status, app_result, raised,
                   deps_resolved, pre, ncalls>>

\* a nested call returns: the runtime pops the stack and appends the callee's
\* result to the shared accumulator
NestedReturn ==
    /\ pc = "app"
    /\ frames # <<>>
    /\ \E effs \in NestedEffectSeqs :
          results' = Append(results, UserResult(Last(frames), effs))
    /\ application_ids' = Front(application_ids)
    /\ frames' = Front(frames)
    /\ stale_open' = FALSE
    /\ UNCHANGED <<lookup, closed, system, users, known, pc, call, action,
                   target, op_results, session_manager, ret, invoked_system,
                   app_status, app_result, raised, deps_resolved, pre, ncalls,
                   nnested>>

\* a nested call fails: the error reaches the calling application, nothing is
\* popped
NestedFail ==
    /\ pc = "app"
    /\ frames # <<>>
    /\ frames' = Front(frames)
    /\ stale_open' = FALSE
    /\ UNCHANGED <<lookup, closed, system, users, known, pc, call, action,
                   target, op_results, application_ids, session_manager,
                   results, ret, invoked_system, app_status, app_result,
                   raised, deps_resolved, pre, ncalls, nnested>>

\* the target's initialize / execute_operation / execute_effect returns Ok:
\* the rest of run_user_action, and of execute_operation for Initialize.
\* `results` keeps the accumulator as the application left it; the vector with
\* the two pushes is the one returned.  A result that is not returned is
\* dropped with the call's locals.
ApplicationReturn ==
    /\ pc = "app"
    /\ action # "Query"
    /\ frames = <<>>
    /\ \E effs \in EffectSeqs, storage_ok \in BOOLEAN :
          LET deps_ok == DescribeWithDependenciesOk(target, known, storage_ok)
              inner == FinishUserAction(target, application_ids, session_manager,
                                        results, effs, deps_ok)
          IN /\ app_result' = IF inner.status = "ok" THEN effs ELSE <<>>
             /\ raised' = IF inner.status = "err" THEN inner.error ELSE "none"
             /\ deps_resolved' = deps_ok
             /\ ret' = IF action = "Initialize"
                       THEN ExtendWithInitialize(op_results, inner)
                       ELSE inner
    /\ app_status' = "ok"
    /\ pc' = "done"
    /\ stale_open' = FALSE
    /\ UNCHANGED <<lookup, closed, system, users, known, call, action, target,
                   op_results, application_ids, session_manager, results,
                   frames, invoked_system, pre, ncalls, nnested>>

\* the target's query_application returns Ok
QueryReturn ==
    /\ pc = "app"
    /\ action = "Query"
    /\ frames = <<>>
    /\ ret' = FinishQuery(target, application_ids, session_manager)
    /\ app_status' = "ok"
    /\ pc' = "done"
    /\ stale_open' = FALSE
    /\ UNCHANGED <<lookup, closed, system, users, known, call, action, target,
                   op_results, application_ids, session_manager, results,
                   frames, invoked_system, app_result, raised, deps_resolved,
                   pre, ncalls, nnested>>

\* the target's entry point returns Err: `.await?` propagates it
ApplicationFail ==
    /\ pc = "app"
    /\ frames = <<>>
    /\ ret' = Err("ApplicationError")
    /\ raised' = "ApplicationError"
    /\ app_status' = "err"
    /\ pc' = "done"
    /\ stale_open' = FALSE
    /\ UNCHANGED <<lookup, closed, system, users, known, call, action, target,
                   op_results, application_ids, session_manager, results,
                   frames, invoked_system, app_result, deps_resolved, pre,
                   ncalls, nnested>>

\* the caller takes the returned value and the call's locals go out of scope;
\* session_manager keeps the last table until the next call allocates its own
Complete ==
    /\ pc = "done"
    /\ pc' = "idle"
    /\ call' = NoCall
    /\ action' = "none"
    /\ target' = 0
    /\ op_results' = <<>>
    /\ application_ids' = <<>>
    /\ results' = <<>>
    /\ frames' = <<>>
    /\ ret' = NoReturn
    /\ invoked_system' = FALSE
    /\ app_status' = "none"
    /\ app_result' = <<>>
    /\ raised' = "none"
    /\ deps_resolved' = TRUE
    /\ nnested' = 0
    /\ pre' = Snapshot
    /\ lookup' = "none"
    /\ stale_open' = FALSE
    /\ UNCHANGED <<closed, system, users, known, session_manager, ncalls>>

Next ==
    \/ ExecuteOperation
    \/ ExecuteEffect
    \/ QueryApplication
    \/ OpenSession
    \/ CloseSession
    \/ WriteRegister
    \/ CallApplication
    \/ NestedReturn
    \/ NestedFail
    \/ ApplicationReturn
    \/ QueryReturn
    \/ ApplicationFail
    \/ Complete

Spec == Init /\ [][Next]_vars

(***************************************************************************)
(* Properties                                                              *)
(***************************************************************************)
UserActions == {"Initialize", "Operation", "Effect"}

SeqToSet(s) == {s[i] : i \in 1..Len(s)}

\* an application and everything reachable from it through required ids
RECURSIVE Reach(_, _)
Reach(S, n) ==
    IF n = 0 THEN S
    ELSE Reach(S \cup UNION {SeqToSet(Dependencies(a)) : a \in S}, n - 1)
TransitiveDependencySet(a) == Reach({a}, Cardinality(Apps))

\* the entry point has returned
Returned == pc = "done" /\ call.entry # "none"
\* ... from a call that built a runtime and invoked user application code
ReturnedFromUser == Returned /\ app_status # "none"

\* C1: whenever a top-level call of an entry point returns a normal result,
\* the SessionManager allocated for the call is empty (user queries included).
C1_NormalReturnLeavesNoSession ==
    (ReturnedFromUser /\ ret.status = "ok") => session_manager.states = {}

\* the case of C2: a user action whose application returned Ok with a session
\* still open
C2_Case ==
    /\ Returned
    /\ action \in UserActions
    /\ app_status = "ok"
    /\ session_manager.states # {}

\* C2 as stated: a user operation, effect or Initialize whose application
\* returns successfully with a session open fails with SessionWasNotClosed and
\* returns no ExecutionResult.
C2_OpenSessionFailsWithSessionWasNotClosed ==
    C2_Case => ret = Err("SessionWasNotClosed")

\* C2 amended: such a call never returns a normal result nor any
\* ExecutionResult; its error is SessionWasNotClosed whenever the stack equals
\* [target] and the dependency closure resolved, the two checks made first.
C2_OpenSessionYieldsNoResult ==
    C2_Case =>
       /\ ret.status # "ok"
       /\ ret.results = <<>>
       /\ (application_ids = <<target>> /\ deps_resolved)
             => ret = Err("SessionWasNotClosed")
       /\ application_ids # <<target>> => ret = Panic
       /\ (application_ids = <<target>> /\ ~deps_resolved)
             => ret = Err("ApplicationResolutionError")

C2_Witness ==
    /\ C2_Case
    /\ application_ids = <<target>>
    /\ deps_resolved
    /\ results # <<>>
    /\ ret.error = "SessionWasNotClosed"

\* C3: a successful user call of application A whose result holds n >= 1
\* effects returns one System result of exactly n RegisterApplications
\* effects, the i-th at the destination of the i-th user effect, each carrying
\* A and its transitive dependencies, placed right before User(A, result).
C3_RegistrationPrecedesUserResult ==
    (Returned /\ action \in UserActions /\ ret.status = "ok" /\ app_result # <<>>) =>
       LET out == ret.results
           k == Len(out)
           n == Len(app_result)
       IN /\ k >= 2
          /\ out[k] = UserResult(target, app_result)
          /\ out[k - 1].kind = "System"
          /\ Len(out[k - 1].effects) = n
          /\ \A i \in 1..n :
                /\ out[k - 1].effects[i].type = "RegisterApplications"
                /\ out[k - 1].effects[i].dest = app_result[i].dest
                /\ SeqToSet(out[k - 1].effects[i].applications)
                      = TransitiveDependencySet(target)
          /\ Cardinality({j \in 1..k :
                /\ out[j].kind = "System"
                /\ \E m \in 1..Len(out[j].effects) :
                      out[j].effects[m].type = "RegisterApplications"}) = 1

C3_Witness ==
    /\ Returned
    /\ action \in UserActions
    /\ ret.status = "ok"
    /\ target = 3
    /\ Len(app_result) = 2
    /\ app_result[1].dest # app_result[2].dest

\* C4: in the sequence returned by a successful top-level user call, every
\* effect of every User(app, result) element, those appended by nested calls
\* included, is preceded by a System RegisterApplications effect at the same
\* destination carrying the transitive dependency set of that app.
C4_EveryUserEffectIsRegistered ==
    (Returned /\ action \in UserActions /\ ret.status = "ok") =>
       \A i \in 1..Len(ret.results) :
          ret.results[i].kind = "User" =>
             \A e \in 1..Len(ret.results[i].effects) :
                \E j \in 1..(i - 1) :
                   /\ ret.results[j].kind = "System"
                   /\ \E m \in 1..Len(ret.results[j].effects) :
                         /\ ret.results[j].effects[m].type = "RegisterApplications"
                         /\ ret.results[j].effects[m].dest
                               = ret.results[i].effects[e].dest
                         /\ SeqToSet(ret.results[j].effects[m].applications)
                               = TransitiveDependencySet(ret.results[i].app)

\* the case of C5: a System operation that reported a new application and
\* returned normally
C5_Case ==
    /\ Returned
    /\ call.entry = "operation"
    /\ action = "Initialize"
    /\ ret.status = "ok"

\* C5 as stated: such an operation returns exactly
\* [System result, User(N, Initialize result)], whatever the Initialize result.
C5_ExactlyTwoResults ==
    C5_Case => ret.results = <<op_results[1], UserResult(target, app_result)>>

\* C5 amended: the System result of the system operation comes first and
\* User(N, Initialize result) last; the sequence has exactly these two
\* elements if and only if the Initialize result has no effect and no nested
\* call appended a sub-result.
C5_SystemResultFirstInitializeLast ==
    C5_Case =>
       LET out == ret.results IN
       /\ Len(out) >= 2
       /\ out[1] = op_results[1]
       /\ out[Len(out)] = UserResult(target, app_result)
       /\ Len(out) = 2 <=> (app_result = <<>> /\ results = <<>>)

C5_Witness ==
    /\ C5_Case
    /\ app_result # <<>>
    /\ results # <<>>
    /\ Len(ret.results) = 4

\* the case of C6: the call's application kind and payload kind differ
C6_Case == Returned /\ call.kind # call.payload

C6_InvalidErrorOf ==
    IF call.entry = "operation" THEN Err("InvalidOperation")
    ELSE IF call.entry = "effect" THEN Err("InvalidEffect")
    ELSE Err("InvalidQuery")

C6_NothingTouched ==
    /\ ~invoked_system
    /\ app_status = "none"
    /\ system = pre.system
    /\ users = pre.users
    /\ known = pre.known

\* C6 as stated: every kind mismatch fails with InvalidOperation,
\* InvalidEffect or InvalidQuery, invokes neither the system sub-application
\* nor user code, and leaves system state, registers and registry unchanged.
C6_MismatchFailsWithInvalid ==
    C6_Case => (ret = C6_InvalidErrorOf /\ C6_NothingTouched)

\* C6 amended: every kind mismatch on a call whose context chain id equals
\* the state's chain id fails with InvalidOperation, InvalidEffect or
\* InvalidQuery; with a different chain id the call aborts on the chain-id
\* assertion; either way nothing is invoked and the state is unchanged.
C6_MismatchWithRightChainFailsWithInvalid ==
    C6_Case =>
       /\ call.chain = StateChainId => ret = C6_InvalidErrorOf
       /\ call.chain # StateChainId => ret = Panic
       /\ C6_NothingTouched

C6_Witness ==
    /\ C6_Case
    /\ call.chain = StateChainId
    /\ ret.error = "InvalidEffect"
    /\ system > 0
    /\ \E a \in Apps : users[a] # 0

\* the case of C7: the context chain id is not the state's chain id
C7_Case == Returned /\ call.chain # StateChainId

\* C7: a call whose context chain id differs from the state's never returns a
\* normal result, and it is stopped before routing, before the system
\* sub-application and before any application code: no error of a routing
\* arm, nothing invoked, no state changed, no result.
C7_ChainIdCheckedFirst ==
    C7_Case =>
       /\ ret.status = "panic"
       /\ ret.results = <<>>
       /\ raised = "none"
       /\ action = "none"
       /\ C6_NothingTouched

C7_Witness ==
    /\ C7_Case
    /\ call.entry = "query"
    /\ call.kind # call.payload
    /\ system > 0

\* C8: whenever a top-level user call (operation, effect, Initialize or
\* query) returns normally, every nested call has returned and the
\* application-id stack is exactly [target].
C8_StackIsTargetOnNormalReturn ==
    (ReturnedFromUser /\ ret.status = "ok") =>
       (application_ids = <<target>> /\ frames = <<>>)

\* a call of depth two (3 called 1, which called 2) unwound and returned
C8_Witness ==
    /\ ReturnedFromUser
    /\ ret.status = "ok"
    /\ target = 3
    /\ Len(results) = 2
    /\ results[1].app = 2
    /\ results[2].app = 1

\* C9: an error raised anywhere in a top-level call tree leaves the entry
\* point with no normal result and nothing of the result sequence: an error
\* that reaches the dispatcher is returned as it is, also when the system
\* operation had already produced its System result, and a failed nested call
\* (its id is still on the stack) never ends in a normal result.
C9_ErrorReturnsNoResult ==
    /\ (Returned /\ raised # "none") => ret = Err(raised)
    /\ (ReturnedFromUser /\ application_ids # <<target>>) =>
          (ret.status # "ok" /\ ret.results = <<>>)

C9_Witness ==
    /\ Returned
    /\ action = "Initialize"
    /\ raised = "SessionWasNotClosed"
    /\ system = pre.system + 1
    /\ op_results # <<>>
    /\ op_results[1].effects # <<>>
    /\ ret.results = <<>>

\* C10: the sequence returned by a successful user call is the sub-results
\* in the order the nested calls appended them, then the System registration
\* result if the target's result has an effect, then User(target, result)
\* last; registrations follow the order of the target's effects and the
\* target's result is returned as the application gave it.
C10_ResultsInAppendOrder ==
    (Returned /\ action \in UserActions /\ ret.status = "ok") =>
       LET out == ret.results
           a == Len(op_results)
           b == Len(results)
           k == Len(out)
       IN /\ k = a + b + (IF app_result # <<>> THEN 2 ELSE 1)
          /\ SubSeq(out, 1, a) = op_results
          /\ SubSeq(out, a + 1, a + b) = results
          /\ out[k] = UserResult(target, app_result)
          /\ app_result # <<>> =>
                /\ out[k - 1].kind = "System"
                /\ [i \in 1..Len(out[k - 1].effects) |-> out[k - 1].effects[i].dest]
                      = [i \in 1..Len(app_result) |-> app_result[i].dest]

C10_Witness ==
    /\ Returned
    /\ action \in UserActions
    /\ ret.status = "ok"
    /\ Len(results) = 2
    /\ results[1].app # results[2].app
    /\ Len(app_result) = 2
    /\ app_result[1] # app_result[2]

\* C11: when the registry cannot describe the target or the loader cannot
\* load its executable, the entry point returns that error in the same step:
\* no runtime is built and no application entry point is invoked, the session
\* table, the result accumulator, the application-id stack and the user
\* registers are left as they were.
C11_FailedLookupInvokesNothing ==
    [][(pc = "idle" /\ lookup' \in {"unresolved", "unloadable"}) =>
          /\ pc' = "done"
          /\ ret' = Err(IF lookup' = "unresolved"
                        THEN "ApplicationResolutionError"
                        ELSE "LoadError")
          /\ app_status' = "none"
          /\ session_manager' = session_manager
          /\ closed' = closed
          /\ results' = results
          /\ application_ids' = application_ids
          /\ users' = users]_vars

C11_Witness ==
    /\ Returned
    /\ action = "Initialize"
    /\ lookup = "unloadable"
    /\ ret = Err("LoadError")
    /\ session_manager.states # {}

\* C12: a user operation, effect or Initialize in which every session that
\* was opened has been closed when the entry point returns finds the session
\* table empty and does not fail with SessionWasNotClosed.
C12_AllClosedNeverSessionWasNotClosed ==
    (ReturnedFromUser /\ action \in UserActions
        /\ closed = 1..session_manager.counter) =>
       /\ session_manager.states = {}
       /\ raised # "SessionWasNotClosed"
       /\ ret.error # "SessionWasNotClosed"

C12_Witness ==
    /\ ReturnedFromUser
    /\ action \in UserActions
    /\ session_manager.counter >= 1
    /\ closed = 1..session_manager.counter
    /\ ret.status = "ok"

\* C13: while a top-level call tree is active no other top-level call begins:
\* the arguments of the call in progress stay until the call has returned and
\* the count of calls begun does not move.
C13_OneCallTreeAtATime ==
    [][(pc # "idle") =>
          /\ ncalls' = ncalls
          /\ (call' = call \/ (pc = "done" /\ pc' = "idle"))]_vars

C13_Witness ==
    /\ pc = "app"
    /\ ncalls < MaxTopCalls
    /\ frames # <<>>
    /\ session_manager.states # {}

\* the case of C14: execute_effect on the pair (System, System effect)
C14_Case ==
    /\ Returned
    /\ call.entry = "effect"
    /\ call.kind = "System"
    /\ call.payload = "System"

\* C14: execute_effect on (System, System effect) returns, on success,
\* exactly one element, the System result of the system sub-application; no
\* user application is resolved, loaded or invoked.
C14_SystemEffectReturnsOneSystemResult ==
    C14_Case =>
       /\ ret.status = "ok" =>
             /\ invoked_system
             /\ Len(ret.results) = 1
             /\ ret.results[1].kind = "System"
             /\ ret.results[1].effects \in SystemEffectSeqs
       /\ lookup = "none"
       /\ app_status = "none"
       /\ action = "none"
       /\ users = pre.users
       /\ known = pre.known

C14_Witness ==
    /\ C14_Case
    /\ ret.status = "ok"
    /\ ret.results[1].effects # <<>>

\* C15: every user call, the Initialize spawned by a System operation
\* included, starts its application with an empty session table of its own,
\* whatever table the call before it left behind.
C15_FreshSessionManagerPerCall ==
    [][(pc = "idle" /\ pc' = "app") =>
          session_manager' = [counter |-> 0, states |-> {}]]_vars

C15_Witness ==
    /\ pc = "app"
    /\ action = "Initialize"
    /\ stale_open
    /\ session_manager = [counter |-> 0, states |-> {}]

\* the case of C16: a user call whose application returned Ok with no effect
\* and left no sub-result of a nested call (app_result is empty as well when
\* the call failed after the application returned)
C16_Case ==
    /\ Returned
    /\ action \in UserActions
    /\ app_status = "ok"
    /\ app_result = <<>>
    /\ results = <<>>

\* C16 as stated: such a call returns exactly [User(target, result)] (after
\* the System result of the operation, for Initialize).
C16_ReturnsExactlyTheUserResult ==
    C16_Case => ret.results = op_results \o <<UserResult(target, <<>>)>>

\* C16, amended: such a call, when it returns a normal result, contributes
\* exactly one element, User(target, result), and no System result; for an
\* operation or an effect it is the whole sequence returned.  It returns no
\* result when a later check of the runner fails.
C16_NoEffectsNoSystemResult ==
    C16_Case =>
       /\ ret.status = "ok" =>
             /\ ret.results = op_results \o <<UserResult(target, <<>>)>>
             /\ action \in {"Operation", "Effect"} => Len(ret.results) = 1
       /\ ret.status # "ok" => ret.results = <<>>

C16_Witness ==
    /\ C16_Case
    /\ ret.status = "ok"
    /\ action = "Operation"
    /\ users # pre.users

C18_ChecksInFixedOrder ==
    (ReturnedFromUser /\ action \in UserActions) =>
       /\ app_status = "err" => ret = Err("ApplicationError")
       /\ (app_status = "ok" /\ application_ids # <<target>>) => ret = Panic
       /\ (app_status = "ok" /\ application_ids = <<target>> /\ ~deps_resolved)
             => ret = Err("ApplicationResolutionError")
       /\ (app_status = "ok" /\ application_ids = <<target>> /\ deps_resolved
              /\ session_manager.states # {})
             => ret = Err("SessionWasNotClosed")
       /\ ret.error = "SessionWasNotClosed" =>
             /\ app_status = "ok"
             /\ application_ids = <<target>>
             /\ deps_resolved
             /\ session_manager.states # {}

C18_Witness ==
    /\ ReturnedFromUser
    /\ action \in UserActions
    /\ app_status = "ok"
    /\ application_ids # <<target>>
    /\ session_manager.states # {}
    /\ ret = Panic

\* C19: query_application returns no ExecutionResult: what the runtime
\* accumulated during a user query is not returned and no registration is
\* made of it; the output is a response, Response::User for a user query, or
\* an error.
C19_QueryContributesNoResult ==
    (Returned /\ call.entry = "query") =>
       /\ ret.results = <<>>
       /\ ret.status = "ok" => ret.response \in {"System", "User"}
       /\ (ret.status = "ok" /\ action = "Query") => ret.response = "User"

C19_Witness ==
    /\ Returned
    /\ action = "Query"
    /\ ret.status = "ok"
    /\ \E i \in 1..Len(results) : results[i].effects # <<>>

\* the case of C20: the application returned Ok with a balanced stack and the
\* registry then failed to resolve the target's closure
C20_Case ==
    /\ ReturnedFromUser
    /\ action \in UserActions
    /\ app_status = "ok"
    /\ application_ids = <<target>>
    /\ ~deps_resolved

\* C20: the closure is resolved after the application returned and the one
\* resolved list is attached to every registration effect; when that
\* resolution fails the call returns the resolution error and no result,
\* although the application ran and the session table may be empty.
C20_ClosureResolvedAfterExecution ==
    /\ C20_Case =>
          /\ lookup = "ok"
          /\ ret = Err("ApplicationResolutionError")
          /\ ret.results = <<>>
    /\ (Returned /\ action \in UserActions /\ ret.status = "ok"
           /\ app_result # <<>>) =>
          LET reg == ret.results[Len(ret.results) - 1]
          IN /\ reg.kind = "System"
             /\ Len(reg.effects) = Len(app_result)
             /\ \A i \in 1..Len(reg.effects) :
                   /\ reg.effects[i].type = "RegisterApplications"
                   /\ reg.effects[i].applications
                         = DescribeWithDependencies(target)

C20_Witness ==
    /\ C20_Case
    /\ session_manager.states = {}
    /\ session_manager.counter >= 1
    /\ users # pre.users

====
